---- MODULE Spec2Model ----
(***************************************************************************)
(* A model of generate_icons.py: the squircle mask generators, the mask    *)
(* applicator, the resizer/emitter and the source resolution of main.      *)
(*                                                                         *)
(* Spec      the run of main (source resolution, generate_icon_set).       *)
(* SpecMask  the two mask generators applied to one (size, smoothness).    *)
(*                                                                         *)
(* Arithmetic.  The code computes value = |nx|^n + |ny|^n in doubles, with *)
(* nx = (x - size/2)/(size/2).  The model keeps the same quantity as the   *)
(* exact fraction Num/Den with Num = |2x-size|^n + |2y-size|^n and         *)
(* Den = size^n.  For every size and exponent the model draws, the double  *)
(* computation and the exact one give the same opacity at every pixel; so  *)
(* they do for exponents 2 and 5 at every size up to 129 at least.  With   *)
(* exponent 1 they first part at size 51, where 255 * (1 - value) / 0.02   *)
(* is the integer 250 and the doubles give 249.                            *)
(***************************************************************************)
EXTENDS Integers, Sequences, FiniteSets, TLC

VARIABLES
    \* ---- the run of main ----
    argv1,          \* sys.argv[1], or NoPath when no argument is given
    fs0,            \* the file system when the run starts
    fs,             \* the file system now
    dirExists,      \* whether asset_dir exists
    pc,             \* position of the run
    candIdx,        \* index of the candidate the probing loop is at
    probed,         \* the candidates whose exists() has been called, in order
    source_path,    \* main's source_path
    image,          \* the object Image.open returned (pixel data is read lazily)
    crop,           \* the box apply_squircle_mask cropped to
    masked_source,  \* generate_icon_set's masked_source
    applyCalls,     \* calls of apply_squircle_mask so far
    maskCalls,      \* calls of create_squircle_mask_fast so far
    mkdirCalls,     \* calls of output_dir.mkdir so far
    idx,            \* index of the catalog entry the emit loop is at
    written,        \* the files saved so far, in order
    exitStatus,     \* the process's exit status, -1 while it runs
    failure,        \* why the run failed, "" when it has not
    \* ---- the mask generators ----
    size,           \* the mask's side length
    smoothness,     \* the superellipse exponent
    numpy,          \* whether "import numpy" succeeds
    mpc,            \* position of the mask computation
    mx, my,         \* the scalar loop's x and y
    mask,           \* the image create_squircle_mask fills
    fastMask        \* what create_squircle_mask_fast returned

mainVars == <<argv1, fs0, fs, dirExists, pc, candIdx, probed, source_path, image,
              crop, masked_source, applyCalls, maskCalls, mkdirCalls, idx,
              written, exitStatus, failure>>
maskVars == <<size, smoothness, numpy, mpc, mx, my, mask, fastMask>>
vars == <<mainVars, maskVars>>

\* ------------------------------------------------------------------ bounds

\* Source images are drawn with sides in 1..MaxDim (and two named sizes).
MaxDim == 3
\* Masks are generated for sizes 1..MaxSize (and one size that has pixels
\* exactly on the band boundary value = 0.98).
MaxSize == 16

\* ------------------------------------------------------------------ paths

\* A path is <<directory, file name>>.
script_dir == "script_dir"
asset_dir == "AppIcon.appiconset"
NoPath == <<"", "">>

\* Required sizes for macOS app icons: (base_size, scale, filename)
icon_sizes ==
    << <<16, 1, "icon_16x16.png">>,
       <<16, 2, "icon_16x16@2x.png">>,
       <<32, 1, "icon_32x32.png">>,
       <<32, 2, "icon_32x32@2x.png">>,
       <<128, 1, "icon_128x128.png">>,
       <<128, 2, "icon_128x128@2x.png">>,
       <<256, 1, "icon_256x256.png">>,
       <<256, 2, "icon_256x256@2x.png">>,
       <<512, 1, "icon_512x512.png">>,
       <<512, 2, "icon_512x512@2x.png">> >>

\* Variant: the two asset-catalog candidates probed in the other order.
candidatesSwapped ==
    << <<script_dir, "icon.png">>,
       <<asset_dir, "icon_512x512.png">>,
       <<asset_dir, "icon_512x512@2x.png">> >>

\* main's candidates, in the order they are probed
candidates ==
    << <<script_dir, "icon.png">>,
       <<asset_dir, "icon_512x512@2x.png">>,
       <<asset_dir, "icon_512x512.png">> >>

\* The explicit arguments the model draws: a file elsewhere, and two files
\* of the output directory (the run overwrites them).
ExplicitArgs ==
    { <<"elsewhere", "custom.png">>,
      <<asset_dir, "icon_32x32.png">>,
      <<asset_dir, "icon_512x512.png">> }

OutputPaths == { <<asset_dir, icon_sizes[k][3]>> : k \in 1..Len(icon_sizes) }
InputPaths == { candidates[k] : k \in 1..Len(candidates) } \cup ExplicitArgs
Paths == InputPaths \cup OutputPaths

\* ------------------------------------------------------------ file system

\* A file: what kind of content it holds, which pixels (data), and its size.
\* kind "image" decodes; "garbage" fails in Image.open; "truncated" has a
\* good header and fails when the pixel data is loaded.
\* Pixel data is named by where it came from: the file "orig" held it when
\* the run started, and "gen" squircle masks have been applied to it since.
NoData == [orig |-> NoPath, gen |-> 0]
NoFile(p) == [kind |-> "absent", data |-> NoData, w |-> 0, h |-> 0]
OrigFile(p, k, d) ==
    [kind |-> k, data |-> [orig |-> p, gen |-> 0], w |-> d[1], h |-> d[2]]

Exists(f, p) == f[p].kind # "absent"

\* Before Image.open, before the crop and before the mask is applied.
NoImage == [path |-> NoPath, w |-> 0, h |-> 0]
NoCrop == [cropped |-> FALSE, box |-> <<0, 0, 0, 0>>]
NoMasked == [data |-> NoData, w |-> 0, h |-> 0, maskSize |-> 0, smoothness |-> 0]

SourceDims == ((1..MaxDim) \X (1..MaxDim)) \cup { <<800, 600>>, <<1024, 1024>> }
Kinds == {"image", "garbage", "truncated"}

\* ------------------------------------------------------------ mask generator

Abs(a) == IF a < 0 THEN -a ELSE a

RECURSIVE Pow(_, _)
Pow(b, n) == IF n = 0 THEN 1 ELSE b * Pow(b, n - 1)

\* edge_width = 0.02 = 1 / EdgeWidthInv
EdgeWidthInv == 50

\* Variant: coordinates normalised from pixel centres, nx = (x + 0.5 - size/2) / (size/2).
ValueNumCentered(sz, n, x, y) ==
    Pow(Abs(2 * x + 1 - sz), n) + Pow(Abs(2 * y + 1 - sz), n)

\* value = abs(nx) ** smoothness + abs(ny) ** smoothness = ValueNum / ValueDen,
\* with nx = (x - size/2) / (size/2) = (2x - size) / size.
ValueNum(sz, n, x, y) == Pow(Abs(2 * x - sz), n) + Pow(Abs(2 * y - sz), n)
ValueDen(sz, n) == Pow(sz, n)

Pixels(sz) == (0..(sz - 1)) \X (0..(sz - 1))

\* Image.new('L', (size, size), 0)
NewImage(sz) == [p \in Pixels(sz) |-> 0]

\* Variant: int(255 * edge_distance), the division by the band width left out.
EdgeAlphaNoScale(sz, n, x, y) ==
    (255 * (Pow(sz, n) - ValueNum(sz, n, x, y))) \div Pow(sz, n)

\* int(255 * (edge_distance / 0.02)) with edge_distance = 1 - value >= 0
EdgeAlpha(sz, n, x, y) ==
    (255 * EdgeWidthInv * (ValueDen(sz, n) - ValueNum(sz, n, x, y))) \div ValueDen(sz, n)

\* The body of create_squircle_mask's double loop at pixel (x, y): what the
\* image is after it.
PixelBody(img, sz, n, x, y) ==
    LET num == ValueNum(sz, n, x, y)
        den == ValueDen(sz, n)
    IN  IF num <= den                                   \* value <= 1
        THEN IF EdgeWidthInv * (den - num) > den        \* edge_distance > 0.02
             THEN [img EXCEPT ![<<x, y>>] = 255]
             ELSE [img EXCEPT ![<<x, y>>] = EdgeAlpha(sz, n, x, y)]
        ELSE img

\* Variant: the array value rounded up instead of truncated.
AsUint8Up(num, den) == ((num + den - 1) \div den) % 256

\* .astype(np.uint8) of a non-negative float: truncate, keep the low 8 bits
AsUint8(num, den) == (num \div den) % 256

\* The numpy branch of create_squircle_mask_fast.  Arrays are indexed
\* [row, column] = [y, x]; Image.fromarray reads pixel (x, y) from [y, x].
FastNumpyMask(sz, n) ==
    LET den == ValueDen(sz, n)
        value(r, c) == ValueNum(sz, n, c, r)            \* numerator of value[r, c]
        inside(r, c) == value(r, c) <= den
        edge_zone(r, c) ==
            /\ EdgeWidthInv * value(r, c) > (EdgeWidthInv - 1) * den
            /\ value(r, c) <= den
        zeros == [rc \in Pixels(sz) |-> 0]
        filled == [rc \in Pixels(sz) |->
                     IF inside(rc[1], rc[2]) /\ ~edge_zone(rc[1], rc[2])
                     THEN 255 ELSE zeros[rc]]
        mask_array == [rc \in Pixels(sz) |->
                     IF edge_zone(rc[1], rc[2])
                     THEN AsUint8(255 * EdgeWidthInv * (den - value(rc[1], rc[2])), den)
                     ELSE filled[rc]]
    IN  [p \in Pixels(sz) |-> mask_array[<<p[2], p[1]>>]]

\* The sizes and exponents the generators are run on.  The band is 0.02 wide
\* in value, and few small masks have a pixel in it: size 18 with exponent 2
\* and size 22 with exponent 5 have pixels strictly inside the band (opacity
\* 157 and 158); size 20 with exponent 2 has pixels with value = 0.98 exactly
\* (x, y in {3, 17}).
Sizes == (1..MaxSize) \cup {18, 20, 22}
Smoothnesses == {1, 2, 5}

\* create_squircle_mask(size, smoothness) is entered: lines 41-44.
InitMask ==
    /\ size \in Sizes
    /\ smoothness \in Smoothnesses
    /\ numpy \in BOOLEAN
    /\ mpc = "scalar"
    /\ mx = 0 /\ my = 0
    /\ mask = NewImage(size)
    /\ fastMask = NewImage(size)
    \* no run of main: its variables stay as they are before a run
    /\ argv1 = NoPath
    /\ fs0 = [p \in Paths |-> NoFile(p)]
    /\ fs = fs0
    /\ dirExists = FALSE
    /\ pc = "idle"
    /\ candIdx = 1
    /\ probed = <<>>
    /\ source_path = NoPath
    /\ image = NoImage
    /\ crop = NoCrop
    /\ masked_source = NoMasked
    /\ applyCalls = 0 /\ maskCalls = 0 /\ mkdirCalls = 0
    /\ idx = 1
    /\ written = <<>>
    /\ exitStatus = -1
    /\ failure = ""

\* One iteration of "for y in range(size): for x in range(size)".
NextX == IF mx + 1 = size THEN 0 ELSE mx + 1
NextY == IF mx + 1 = size THEN my + 1 ELSE my

\* create_squircle_mask: one pixel of the double loop.
ScalarPixel ==
    /\ mpc = "scalar" /\ my < size
    /\ mask' = PixelBody(mask, size, smoothness, mx, my)
    /\ mx' = NextX /\ my' = NextY
    /\ UNCHANGED <<size, smoothness, numpy, mpc, fastMask>>
    /\ UNCHANGED mainVars

\* create_squircle_mask: the loop is over, "return mask".
ScalarReturn ==
    /\ mpc = "scalar" /\ my = size
    /\ mpc' = "call_fast"
    /\ UNCHANGED <<size, smoothness, numpy, mx, my, mask, fastMask>>
    /\ UNCHANGED mainVars

\* create_squircle_mask_fast with numpy: the whole array computation.
FastNumpy ==
    /\ mpc = "call_fast" /\ numpy
    /\ fastMask' = FastNumpyMask(size, smoothness)
    /\ mpc' = "done"
    /\ UNCHANGED <<size, smoothness, numpy, mx, my, mask>>
    /\ UNCHANGED mainVars

\* create_squircle_mask_fast without numpy: ImportError, and the pure Python
\* version is entered.
FastImportError ==
    /\ mpc = "call_fast" /\ ~numpy
    /\ fastMask' = NewImage(size)
    /\ mx' = 0 /\ my' = 0
    /\ mpc' = "fallback"
    /\ UNCHANGED <<size, smoothness, numpy, mask>>
    /\ UNCHANGED mainVars

\* The fallback's create_squircle_mask: one pixel of the double loop.
FallbackPixel ==
    /\ mpc = "fallback" /\ my < size
    /\ fastMask' = PixelBody(fastMask, size, smoothness, mx, my)
    /\ mx' = NextX /\ my' = NextY
    /\ UNCHANGED <<size, smoothness, numpy, mpc, mask>>
    /\ UNCHANGED mainVars

\* The fallback returns its mask, and create_squircle_mask_fast returns it.
FallbackReturn ==
    /\ mpc = "fallback" /\ my = size
    /\ mpc' = "done"
    /\ UNCHANGED <<size, smoothness, numpy, mx, my, mask, fastMask>>
    /\ UNCHANGED mainVars

\* ------------------------------------------------------------ mask applicator


Min(a, b) == IF a <= b THEN a ELSE b

\* Variant: the offsets not halved (the crop taken from the far edge).
CropBoxNoHalf(w, h) ==
    LET sz == IF w <= h THEN w ELSE h
    IN  <<w - sz, h - sz, (w - sz) + sz, (h - sz) + sz>>

\* The box of "image.crop((left, top, left + size, top + size))"
CropBox(w, h) ==
    LET sz == Min(w, h)
        left == (w - sz) \div 2
        top == (h - sz) \div 2
    IN  <<left, top, left + sz, top + sz>>

\* apply_squircle_mask(image) on pixel data "data" of dimensions w x h, with
\* the default smoothness: the crop it made and the image it returns.  The
\* mask is create_squircle_mask_fast(size, smoothness); the returned image
\* carries the source's pixels with one more mask applied.
ApplySquircleMask(data, w, h) ==
    LET sz == Min(w, h)
        box == CropBox(w, h)
        cropped == w # h
        ww == IF cropped THEN box[3] - box[1] ELSE w
        wh == IF cropped THEN box[4] - box[2] ELSE h
    IN  [crop |-> [cropped |-> cropped, box |-> IF cropped THEN box ELSE <<0, 0, w, h>>],
         result |-> [data |-> [data EXCEPT !.gen = @ + 1], w |-> ww, h |-> wh,
                     maskSize |-> sz, smoothness |-> 5]]

\* ------------------------------------------------------------ resizer / emitter

\* Variant: the scale forgotten.
ActualSizeNoScale(base_size, scale) == base_size

\* actual_size = base_size * scale
ActualSize(base_size, scale) == base_size * scale

\* Variant: the source file opened and masked again for every entry.
EmitSourceReread(ms, f, sp) == ApplySquircleMask(f[sp].data, f[sp].w, f[sp].h).result

\* The image line 182 resamples for every entry: masked_source, computed once
\* at line 171 (f and sp, the file system and source path, are not read).
EmitSource(ms, f, sp) == ms

\* masked_source.resize((actual_size, actual_size), LANCZOS) saved as PNG
ResizedFile(ms, actual) ==
    [kind |-> "image", data |-> ms.data, w |-> actual, h |-> actual]

\* ------------------------------------------------------------ the run of main

Init ==
    /\ argv1 \in {NoPath} \cup ExplicitArgs
    /\ \E present \in SUBSET InputPaths, k \in Kinds, d \in SourceDims :
          /\ fs0 = [p \in Paths |-> IF p \in present THEN OrigFile(p, k, d) ELSE NoFile(p)]
          /\ dirExists \in (IF \E p \in present : p[1] = asset_dir THEN {TRUE} ELSE BOOLEAN)
    /\ fs = fs0
    /\ pc = "main"
    /\ candIdx = 1
    /\ probed = <<>>
    /\ source_path = NoPath
    /\ image = NoImage
    /\ crop = NoCrop
    /\ masked_source = NoMasked
    /\ applyCalls = 0 /\ maskCalls = 0 /\ mkdirCalls = 0
    /\ idx = 1
    /\ written = <<>>
    /\ exitStatus = -1
    /\ failure = ""
    \* no mask computation of its own
    /\ size = 0 /\ smoothness = 0 /\ numpy = FALSE /\ mpc = "idle"
    /\ mx = 0 /\ my = 0 /\ mask = NewImage(0) /\ fastMask = NewImage(0)

\* The run ends with status 1: sys.exit(1), or an exception nobody catches.
Fail(why) ==
    /\ pc' = "exited"
    /\ exitStatus' = 1
    /\ failure' = why

\* Lines 196-205: an explicit argument is the source; else the probing starts.
ParseArgs ==
    /\ pc = "main"
    /\ IF argv1 # NoPath
       THEN source_path' = argv1 /\ pc' = "check_exists"
       ELSE source_path' = NoPath /\ pc' = "probe"
    /\ UNCHANGED <<argv1, fs0, fs, dirExists, candIdx, probed, image, crop,
                   masked_source, applyCalls, maskCalls, mkdirCalls, idx, written,
                   exitStatus, failure>>
    /\ UNCHANGED maskVars

\* Lines 206-209: one iteration of "for candidate in candidates".
ProbeCandidate ==
    /\ pc = "probe" /\ candIdx <= Len(candidates)
    /\ probed' = Append(probed, candidates[candIdx])
    /\ IF Exists(fs, candidates[candIdx])
       THEN source_path' = candidates[candIdx] /\ pc' = "check_exists"
            /\ UNCHANGED candIdx
       ELSE candIdx' = candIdx + 1 /\ UNCHANGED <<source_path, pc>>
    /\ UNCHANGED <<argv1, fs0, fs, dirExists, image, crop, masked_source,
                   applyCalls, maskCalls, mkdirCalls, idx, written, exitStatus,
                   failure>>
    /\ UNCHANGED maskVars

\* Lines 211-214: the loop ended with source_path None.
NoSourceFound ==
    /\ pc = "probe" /\ candIdx > Len(candidates)
    /\ Fail("NoSourceFound")
    /\ UNCHANGED <<argv1, fs0, fs, dirExists, candIdx, probed, source_path, image,
                   crop, masked_source, applyCalls, maskCalls, mkdirCalls, idx,
                   written>>
    /\ UNCHANGED maskVars

\* Variant: the existence check left out.
SourceMissingNever(f, sp) == FALSE

\* "if not source_path.exists()"
SourceMissing(f, sp) == ~Exists(f, sp)

\* Lines 216-221: the existence check; generate_icon_set is called when it passes.
CheckExists ==
    /\ pc = "check_exists"
    /\ IF SourceMissing(fs, source_path)
       THEN Fail("SourceNotFound")
       ELSE pc' = "open" /\ UNCHANGED <<exitStatus, failure>>
    /\ UNCHANGED <<argv1, fs0, fs, dirExists, candIdx, probed, source_path, image,
                   crop, masked_source, applyCalls, maskCalls, mkdirCalls, idx,
                   written>>
    /\ UNCHANGED maskVars

\* Lines 166-167: Image.open reads the header; it raises on a file that is
\* missing or is no image.
OpenSource ==
    /\ pc = "open"
    /\ IF fs[source_path].kind \in {"absent", "garbage"}
       THEN Fail("DecodeFailure") /\ UNCHANGED image
       ELSE /\ image' = [path |-> source_path, w |-> fs[source_path].w,
                         h |-> fs[source_path].h]
            /\ pc' = "apply"
            /\ UNCHANGED <<exitStatus, failure>>
    /\ UNCHANGED <<argv1, fs0, fs, dirExists, candIdx, probed, source_path, crop,
                   masked_source, applyCalls, maskCalls, mkdirCalls, idx, written>>
    /\ UNCHANGED maskVars

\* Lines 170-171: apply_squircle_mask(source).  Its first use of the pixels
\* (crop, convert or split) loads them from the file, and raises when they
\* cannot be decoded; the mask is generated once, at line 133.
ApplyMask ==
    /\ pc = "apply"
    /\ applyCalls' = applyCalls + 1
    /\ IF fs[image.path].kind # "image"
       THEN Fail("DecodeFailure") /\ UNCHANGED <<crop, masked_source, maskCalls>>
       ELSE LET r == ApplySquircleMask(fs[image.path].data, image.w, image.h)
            IN  /\ crop' = r.crop
                /\ masked_source' = r.result
                /\ maskCalls' = maskCalls + 1
                /\ pc' = "mkdir"
                /\ UNCHANGED <<exitStatus, failure>>
    /\ UNCHANGED <<argv1, fs0, fs, dirExists, candIdx, probed, source_path, image,
                   mkdirCalls, idx, written>>
    /\ UNCHANGED maskVars

\* Lines 174-175: output_dir.mkdir(parents=True, exist_ok=True) succeeds.
Mkdir ==
    /\ pc = "mkdir"
    /\ mkdirCalls' = mkdirCalls + 1
    /\ dirExists' = TRUE
    /\ pc' = "emit"
    /\ UNCHANGED <<argv1, fs0, fs, candIdx, probed, source_path, image, crop,
                   masked_source, applyCalls, maskCalls, idx, written, exitStatus,
                   failure>>
    /\ UNCHANGED maskVars

\* Lines 174-175: mkdir raises OSError (the directory cannot be created).
MkdirFails ==
    /\ pc = "mkdir" /\ ~dirExists
    /\ mkdirCalls' = mkdirCalls + 1
    /\ Fail("MkdirFailure")
    /\ UNCHANGED <<argv1, fs0, fs, dirExists, candIdx, probed, source_path, image,
                   crop, masked_source, applyCalls, maskCalls, idx, written>>
    /\ UNCHANGED maskVars

\* Lines 177-186: one iteration of the emit loop, the save succeeding.
EmitOne ==
    /\ pc = "emit" /\ idx <= Len(icon_sizes)
    /\ LET base_size == icon_sizes[idx][1]
           scale == icon_sizes[idx][2]
           filename == icon_sizes[idx][3]
           actual_size == ActualSize(base_size, scale)
           output_path == <<asset_dir, filename>>
           resized == ResizedFile(EmitSource(masked_source, fs, source_path), actual_size)
       IN  /\ fs' = [fs EXCEPT ![output_path] = resized]
           /\ written' = Append(written, [path |-> output_path, file |-> resized])
    /\ idx' = idx + 1
    /\ UNCHANGED <<argv1, fs0, dirExists, pc, candIdx, probed, source_path, image,
                   crop, masked_source, applyCalls, maskCalls, mkdirCalls,
                   exitStatus, failure>>
    /\ UNCHANGED maskVars

\* Variant: the exception of a failing save swallowed, the loop going on.
SaveFailsSwallowed ==
    /\ pc = "emit" /\ idx <= Len(icon_sizes)
    /\ idx' = idx + 1
    /\ UNCHANGED <<argv1, fs0, fs, dirExists, pc, candIdx, probed, source_path,
                   image, crop, masked_source, applyCalls, maskCalls, mkdirCalls,
                   written, exitStatus, failure>>
    /\ UNCHANGED maskVars

\* Lines 177-186: resized.save raises (disk full, no permission): the
\* exception ends the run; nothing undoes the files already saved.
SaveFails ==
    /\ pc = "emit" /\ idx <= Len(icon_sizes)
    /\ Fail("SaveFailure")
    /\ UNCHANGED <<argv1, fs0, fs, dirExists, candIdx, probed, source_path, image,
                   crop, masked_source, applyCalls, maskCalls, mkdirCalls, idx,
                   written>>
    /\ UNCHANGED maskVars

\* Lines 188, 223-224: the loop is over; main returns, exit status 0.
Finish ==
    /\ pc = "emit" /\ idx > Len(icon_sizes)
    /\ pc' = "done"
    /\ exitStatus' = 0
    /\ UNCHANGED <<argv1, fs0, fs, dirExists, candIdx, probed, source_path, image,
                   crop, masked_source, applyCalls, maskCalls, mkdirCalls, idx,
                   written, failure>>
    /\ UNCHANGED maskVars

Next ==
    \/ ParseArgs
    \/ ProbeCandidate
    \/ NoSourceFound
    \/ CheckExists
    \/ OpenSource
    \/ ApplyMask
    \/ Mkdir
    \/ MkdirFails
    \/ EmitOne
    \/ SaveFails
    \/ Finish

Spec == Init /\ [][Next]_vars

\* ------------------------------------------------- the mask generators alone

NextMask ==
    \/ ScalarPixel
    \/ ScalarReturn
    \/ FastNumpy
    \/ FastImportError
    \/ FallbackPixel
    \/ FallbackReturn

SpecMask == InitMask /\ [][NextMask]_vars

\* =================================================================== claims
\* Claims C1-C4, C8 and C10 are about Spec; C5, C6, C7 and C9 about SpecMask.

Terminated == pc \in {"done", "exited"}
Catalog(k) == <<asset_dir, icon_sizes[k][3]>>

\* ---- C1 ----------------------------------------------------------------
\* C1 as claimed: once the Masked Image has been produced, a terminated run
\* has written all 10 catalog files or none at all.
C1_AllOrNothing ==
    (Terminated /\ masked_source # NoMasked) => Len(written) \in {0, 10}

\* C1 as amended: once the Masked Image has been produced, a run that ends
\* with status 0 has written all 10 catalog files; a run ended by a failure to
\* create the output directory has written none; a run ended by a failing
\* save has written exactly the catalog entries before the failing one (0 to
\* 9 files, in catalog order), and they stay on disk as written.
C1_PrefixOnSaveFailure ==
    (Terminated /\ masked_source # NoMasked) =>
        /\ exitStatus = 0 => Len(written) = 10
        /\ exitStatus # 0 => failure \in {"MkdirFailure", "SaveFailure"}
        /\ failure = "MkdirFailure" => written = <<>>
        /\ failure = "SaveFailure" => Len(written) \in 0..9
        /\ \A k \in 1..Len(written) :
              /\ written[k].path = Catalog(k)
              /\ fs[written[k].path] = written[k].file

\* C1's case: a save failed after four files were written.
C1_Witness ==
    /\ pc = "exited" /\ failure = "SaveFailure"
    /\ Len(written) = 4
    /\ Exists(fs, Catalog(4)) /\ fs[Catalog(4)].data.gen = 1

\* ---- C2 ----------------------------------------------------------------
\* The source cannot be resolved: the explicit argument names no file, or no
\* argument is given and no candidate exists.
Unresolvable ==
    IF argv1 # NoPath
    THEN ~Exists(fs0, argv1)
    ELSE /\ ~Exists(fs0, <<script_dir, "icon.png">>)
         /\ ~Exists(fs0, <<asset_dir, "icon_512x512@2x.png">>)
         /\ ~Exists(fs0, <<asset_dir, "icon_512x512.png">>)

\* C2: when the source cannot be resolved, generate_icon_set is never
\* entered, the output directory is never created, no file is written, and
\* the run (which can always take its next step until it has ended) ends with
\* a non-zero exit status.
C2_UnresolvedAborts ==
    Unresolvable =>
        /\ pc \in {"main", "probe", "check_exists", "exited"}
        /\ applyCalls = 0 /\ maskCalls = 0 /\ mkdirCalls = 0
        /\ written = <<>> /\ fs = fs0
        /\ image = NoImage /\ masked_source = NoMasked
        /\ Terminated => (exitStatus # 0 /\ exitStatus # -1)
        /\ ~Terminated => ENABLED Next

\* C2's case: the explicit argument names no file (though a candidate
\* exists), and the run has ended.
C2_Witness ==
    /\ argv1 # NoPath /\ ~Exists(fs0, argv1)
    /\ Exists(fs0, <<script_dir, "icon.png">>)
    /\ pc = "exited" /\ exitStatus = 1

\* ---- C3 ----------------------------------------------------------------
\* The first candidate that exists, in the fixed order; NoPath when none does.
FirstExistingCandidate ==
    IF Exists(fs0, <<script_dir, "icon.png">>) THEN <<script_dir, "icon.png">>
    ELSE IF Exists(fs0, <<asset_dir, "icon_512x512@2x.png">>)
         THEN <<asset_dir, "icon_512x512@2x.png">>
    ELSE IF Exists(fs0, <<asset_dir, "icon_512x512.png">>)
         THEN <<asset_dir, "icon_512x512.png">>
    ELSE NoPath

IconName(base, scale) ==
    "icon_" \o ToString(base) \o "x" \o ToString(base)
            \o (IF scale = 2 THEN "@2x" ELSE "") \o ".png"

\* C4: a run that completes has written exactly 10 files into the fixed
\* output directory, one for each base in {16,32,128,256,512} and scale in
\* {1,2} and each exactly once, named icon_<base>x<base>[@2x].png, of
\* (base*scale) x (base*scale) pixels whatever the source's dimensions.
C4_TenFiles ==
    pc = "done" =>
        /\ Len(written) = 10
        /\ \A k \in 1..Len(written) : written[k].path[1] = "AppIcon.appiconset"
        /\ \A base \in {16, 32, 128, 256, 512}, scale \in {1, 2} :
              /\ Cardinality({k \in 1..Len(written) :
                                written[k].path[2] = IconName(base, scale)}) = 1
              /\ \A k \in 1..Len(written) :
                    written[k].path[2] = IconName(base, scale) =>
                        /\ written[k].file.w = base * scale
                        /\ written[k].file.h = base * scale
                        /\ fs[written[k].path] = written[k].file
        /\ fs[<<asset_dir, "icon_16x16.png">>].w = 16
        /\ fs[<<asset_dir, "icon_16x16.png">>].h = 16
        /\ fs[<<asset_dir, "icon_512x512@2x.png">>].w = 1024
        /\ fs[<<asset_dir, "icon_512x512@2x.png">>].h = 1024

\* C4's case: a completed run from an 800 x 600 source outside the output
\* directory.
C4_Witness ==
    /\ pc = "done" /\ exitStatus = 0
    /\ image.w = 800 /\ image.h = 600
    /\ source_path = <<"elsewhere", "custom.png">>

\* ---- C8 ----------------------------------------------------------------
\* C8: the Masked Image is square with side s = min(width, height); a
\* non-square source is cropped to [left, top, left+s, top+s) with
\* left = floor((width-s)/2), top = floor((height-s)/2), a box inside the
\* source; a square source is not cropped and keeps its dimensions
\* (800 x 600 gives 600 x 600 with left = 100, top = 0).
C8_SquareCrop ==
    masked_source # NoMasked =>
        LET width == image.w
            height == image.h
            s == IF width <= height THEN width ELSE height
            left == crop.box[1]
            top == crop.box[2]
        IN  /\ width >= 1 /\ height >= 1
            /\ masked_source.w = s /\ masked_source.h = s
            /\ masked_source.maskSize = s
            /\ width # height =>
                  /\ crop.cropped
                  /\ 2 * left <= width - s /\ width - s < 2 * left + 2
                  /\ 2 * top <= height - s /\ height - s < 2 * top + 2
                  /\ crop.box = <<left, top, left + s, top + s>>
                  /\ 0 <= left /\ left + s <= width
                  /\ 0 <= top /\ top + s <= height
            /\ width = height =>
                  /\ ~crop.cropped
                  /\ masked_source.w = width /\ masked_source.h = height
            /\ (width = 800 /\ height = 600) =>
                  /\ crop.box = <<100, 0, 700, 600>>
                  /\ masked_source.w = 600 /\ masked_source.h = 600

\* C8's case: the mask has been applied to an 800 x 600 source.
C8_Witness ==
    /\ masked_source # NoMasked
    /\ image.w = 800 /\ image.h = 600
    /\ crop.cropped

\* ---- C10 ---------------------------------------------------------------
\* C10: the mask is generated and applied at most once in a run, and exactly
\* once before the output directory is created and before any file is
\* written; every file written carries the pixels the source file held when
\* the run started with that one mask applied, also when the run has
\* overwritten the source file in between.
C10_MaskedOnce ==
    /\ applyCalls <= 1 /\ maskCalls <= 1
    /\ (mkdirCalls > 0 \/ written # <<>> \/ pc = "done") =>
          /\ applyCalls = 1 /\ maskCalls = 1
          /\ masked_source # NoMasked
          /\ masked_source.data = [orig |-> source_path, gen |-> 1]
          /\ fs0[source_path].data = [orig |-> source_path, gen |-> 0]
    /\ \A k \in 1..Len(written) :
          /\ written[k].file.data = masked_source.data
          /\ written[k].file.data = [fs0[source_path].data EXCEPT !.gen = 1]

\* C10's case: the source is the candidate icon_512x512.png of the output
\* directory, the run has overwritten it and has written the file after it.
C10_Witness ==
    /\ argv1 = NoPath
    /\ source_path = <<asset_dir, "icon_512x512.png">>
    /\ pc = "done"
    /\ fs[source_path] # fs0[source_path]
    /\ written[9].path = source_path
    /\ written[10].file.data = [orig |-> source_path, gen |-> 1]

\* ---- C5 ----------------------------------------------------------------
Centre == <<size \div 2, size \div 2>>
Corners == {<<0, 0>>, <<size - 1, 0>>, <<0, size - 1>>, <<size - 1, size - 1>>}

C6_Symmetric ==
    (mpc = "done" /\ smoothness = 5) =>
        \A m \in {mask, fastMask} : \A p \in Pixels(size) :
            /\ m[p] = m[<<size - 1 - p[1], p[2]>>]
            /\ m[p] = m[<<p[1], size - 1 - p[2]>>]
            /\ m[p] = m[<<p[2], size - 1 - p[1]>>]

\* ---- C7 ----------------------------------------------------------------
\* The opacity the claim gives a pixel of value num/den: 255 when
\* value <= 0.98, 0 when value > 1, floor(255*(1-value)/0.02) between.
ClaimedOpacity(num, den) ==
    IF 50 * num <= 49 * den THEN 255
    ELSE IF num > den THEN 0
    ELSE (255 * 50 * (den - num)) \div den

C9_FastEqualsScalar ==
    mpc = "done" =>
        /\ DOMAIN fastMask = Pixels(size)
        /\ \A p \in Pixels(size) : fastMask[p] = mask[p]

\* C9's case: with numpy, the two masks of size 20 and exponent 2, which has
\* pixels with value = 0.98 (3,3) and with value = 1 (10,0).
C9_Witness ==
    /\ mpc = "done" /\ numpy /\ size = 20 /\ smoothness = 2
    /\ 100 * ValueNum(20, 2, 3, 3) = 98 * ValueDen(20, 2)
    /\ ValueNum(20, 2, 10, 0) = ValueDen(20, 2)
    /\ fastMask[<<3, 3>>] = 255 /\ fastMask[<<10, 0>>] = 0
    /\ mask[<<3, 3>>] = 255 /\ mask[<<10, 0>>] = 0

====
